---- MODULE Spec2Model ----
(***************************************************************************)
(* Model of the Bitrix REST client helpers                                 *)
(*   src/source/bitrix/client/methods/batch.ts  (batch encode / execute)   *)
(*   src/unnamed/part_000                       (list fetch)               *)
(*                                                                         *)
(* JavaScript values are tagged records.  A string is a sequence of        *)
(* tokens: one token per character, except that the fixed text of a        *)
(* template literal is kept as one token.  An object is the sequence of    *)
(* its own enumerable entries <<key, value>> in enumeration order, with    *)
(* pairwise distinct keys.                                                 *)
(***************************************************************************)
EXTENDS Integers, Sequences, FiniteSets, TLC

VARIABLES
  pc,          \* per call: "idle", "awaiting", "resolved", "rejected"
  kind,        \* per call: "none", "batch", "list"
  args,        \* per call: the arguments the caller passed
  getCalls,    \* per call: the invocations of the injected get it made (the spy)
  response,    \* per call: what the injected get settled with, once it has
  outcome,     \* per call: what the returned promise settled with, once it has
  validated,   \* per call: how many times the payload handler ran
  encPc,       \* encode harness: "input", "done"
  encCommands, \* encode harness: the Commands value under test
  encResult    \* encode harness: the completion of commandsToBatchQuery

vars == <<pc, kind, args, getCalls, response, outcome, validated,
          encPc, encCommands, encResult>>

callVars == <<pc, kind, args, getCalls, response, outcome, validated>>
encVars == <<encPc, encCommands, encResult>>

----------------------------------------------------------------------------
(* Bounds *)

NumCalls == 2        \* concurrently issued calls
MaxEntries == 2      \* entries of an enumerated small Commands mapping
MaxOver == 1         \* how far above the cap the large mappings go

(* Program constant *)

MAX_COMMANDS_PER_BATCH == 50

----------------------------------------------------------------------------
(* JavaScript values *)

Undefined == [t |-> "undefined"]
JsString(s) == [t |-> "string", s |-> s]
JsNumber(n) == [t |-> "number", n |-> n]
JsObject(entries) == [t |-> "object", entries |-> entries]
JsArray(items) == [t |-> "array", items |-> items]

\* ToBoolean, as applied by `cond ? a : b` and `if (cond)`
Truthy(v) ==
  CASE v.t = "undefined" -> FALSE
    [] v.t = "string" -> v.s # <<>>
    [] v.t = "number" -> v.n # 0
    [] OTHER -> TRUE            \* every object and array, empty ones included

\* a completion: the function returned a value, or threw an error
Return(v) == [threw |-> FALSE, value |-> v]
Throw(e) == [threw |-> TRUE, error |-> e]

Error(message) == [name |-> "Error", message |-> message]
\* what Object.keys / Object.entries throw on undefined
TypeError == [name |-> "TypeError",
              message |-> <<"Cannot convert undefined or null to object">>]

Digits == <<"0", "1", "2", "3", "4", "5", "6", "7", "8", "9">>

\* `${n}` for a non-negative integer
RECURSIVE NumberToString(_)
NumberToString(n) ==
  IF n < 10 THEN <<Digits[n + 1]>>
  ELSE NumberToString(n \div 10) \o <<Digits[(n % 10) + 1]>>

\* Array.prototype.join
RECURSIVE Join(_, _)
Join(items, sep) ==
  IF items = <<>> THEN <<>>
  ELSE IF Len(items) = 1 THEN items[1]
  ELSE items[1] \o sep \o Join(Tail(items), sep)

\* own keys / values of an object or array, in enumeration order
ObjectKeys(v) ==
  CASE v.t = "object" -> Return([i \in 1..Len(v.entries) |-> v.entries[i][1]])
    [] v.t = "array" -> Return([i \in 1..Len(v.items) |-> NumberToString(i - 1)])
    [] OTHER -> Throw(TypeError)

ObjectValues(v) ==
  CASE v.t = "object" -> [i \in 1..Len(v.entries) |-> v.entries[i][2]]
    [] v.t = "array" -> v.items
    [] OTHER -> <<>>

HasKey(entries, k) == \E i \in 1..Len(entries) : entries[i][1] = k

\* {...obj, [k]: v}: an existing key keeps its place and takes the new value
Put(entries, k, v) ==
  IF HasKey(entries, k)
  THEN [i \in 1..Len(entries) |->
          IF entries[i][1] = k THEN <<k, v>> ELSE entries[i]]
  ELSE Append(entries, <<k, v>>)

\* obj[k], undefined when absent
GetProp(obj, k) ==
  IF obj.t = "object" /\ HasKey(obj.entries, k)
  THEN (CHOOSE e \in {obj.entries[i] : i \in 1..Len(obj.entries)} : e[1] = k)[2]
  ELSE Undefined

----------------------------------------------------------------------------
(* querystring.stringify *)

\* percent-encoding of one character; letters and digits are unreserved
qsEscapeChar(c) ==
  CASE c = " " -> <<"%", "2", "0">>
    [] c = "&" -> <<"%", "2", "6">>
    [] c = "=" -> <<"%", "3", "D">>
    [] c = "?" -> <<"%", "3", "F">>
    [] c = "[" -> <<"%", "5", "B">>
    [] c = "]" -> <<"%", "5", "D">>
    [] OTHER -> <<c>>

RECURSIVE qsEscape(_)
qsEscape(s) ==
  IF s = <<>> THEN <<>> ELSE qsEscapeChar(Head(s)) \o qsEscape(Tail(s))

stringifyPrimitive(v) ==
  CASE v.t = "string" -> v.s
    [] v.t = "number" -> NumberToString(v.n)
    [] OTHER -> <<>>

stringifyQuery(obj) ==
  IF obj.t = "object"
  THEN Join([i \in 1..Len(obj.entries) |->
               qsEscape(obj.entries[i][1]) \o <<"=">>
                 \o qsEscape(stringifyPrimitive(obj.entries[i][2]))],
            <<"&">>)
  ELSE <<>>

----------------------------------------------------------------------------
(* batch.ts: commandsToBatchQuery *)

\* mutant: the command name is left out of the key
BatchQueryKeyNoName(cmdName) == <<"c", "m", "d", "[", "]">>

\* `cmd[${cmdName}]`
BatchQueryKey(cmdName) == <<"c", "m", "d", "[">> \o cmdName \o <<"]">>

\* command.params ? `?${stringifyQuery(command.params)}` : ''
stringifiedParams(command) ==
  IF Truthy(command.params)
  THEN <<"?">> \o stringifyQuery(command.params)
  ELSE <<>>

\* `${command.method}${stringifiedParams}`
BatchQueryValue(command) == command.method \o stringifiedParams(command)

\* The reduce callback: one entry added to the accumulator.
ReduceStep(queries, entry) ==
  LET cmdName == entry[1]
      command == entry[2]
  IN Put(queries, BatchQueryKey(cmdName), BatchQueryValue(command))

\* The left fold of ReduceStep over entries[lo..hi]: the callback is applied to
\* the entries in order.  The range is halved, and the accumulator of the left
\* half is evaluated (its length taken) before the right half starts, only to
\* keep the evaluation shallow.
RECURSIVE ReduceCommands(_, _, _, _)
ReduceCommands(queries, entries, lo, hi) ==
  IF lo > hi THEN queries
  ELSE IF lo = hi THEN ReduceStep(queries, entries[lo])
  ELSE LET mid == (lo + hi) \div 2
           left == ReduceCommands(queries, entries, lo, mid)
       IN IF Len(left) >= 0
          THEN ReduceCommands(left, entries, mid + 1, hi)
          ELSE left

\* Object.entries(commands).reduce(..., {}); Object.entries throws on undefined
commandsToBatchQuery(commands) ==
  IF ObjectKeys(commands).threw
  THEN Throw(TypeError)
  ELSE Return(JsObject(ReduceCommands(<<>>, commands.entries, 1, Len(commands.entries))))

----------------------------------------------------------------------------
(* batch.ts: handleBatchPayload *)

\* utils/isArray
isArray(v) == v.t = "array"

\* A batch payload: payload.result.result holds the per-command results,
\* payload.result.result_error the errors, as an array or a name-keyed object.
BatchPayload(results, resultErrors) ==
  [result |-> [result |-> results, result_error |-> resultErrors]]

\* `[batch] failed to process. Received errors in ${errors.length} commands:\n${errors.join('\n')}`
BatchErrorMessage(errors) ==
  <<"[batch] failed to process. Received errors in ">>
    \o NumberToString(Len(errors)) \o <<" commands", ":", "\n">>
    \o Join(errors, <<"\n">>)

\* mutant: one error is let through
handleBatchPayloadOffByOne(payload) ==
  LET resultErrors == payload.result.result_error
      errors == IF isArray(resultErrors) THEN resultErrors.items
                ELSE ObjectValues(resultErrors)
  IN IF Len(errors) > 1
     THEN Throw(Error(BatchErrorMessage(errors)))
     ELSE Return(payload)

\* mutant: the payload is returned with its errors normalised to an array
handleBatchPayloadNormalised(payload) ==
  LET resultErrors == payload.result.result_error
      errors == IF isArray(resultErrors) THEN resultErrors.items
                ELSE ObjectValues(resultErrors)
  IN IF Len(errors) > 0
     THEN Throw(Error(BatchErrorMessage(errors)))
     ELSE Return(BatchPayload(payload.result.result, JsArray(errors)))

\* mutant: only the array shape is inspected
handleBatchPayloadArrayOnly(payload) ==
  LET resultErrors == payload.result.result_error
      errors == IF isArray(resultErrors) THEN resultErrors.items ELSE <<>>
  IN IF Len(errors) > 0
     THEN Throw(Error(BatchErrorMessage(errors)))
     ELSE Return(payload)

handleBatchPayload(payload) ==
  LET resultErrors == payload.result.result_error
      errors == IF isArray(resultErrors) THEN resultErrors.items
                ELSE ObjectValues(resultErrors)
  IN IF Len(errors) > 0
     THEN Throw(Error(BatchErrorMessage(errors)))
     ELSE Return(payload)

----------------------------------------------------------------------------
(* part_000: handleGetListPayload *)

\* `${v}` for the values a payload's error field takes
TemplateValue(v) ==
  CASE v.t = "string" -> v.s
    [] v.t = "number" -> NumberToString(v.n)
    [] OTHER -> <<"undefined">>

\* `[get] failed to get the resource: ${payload.error}.`
ListErrorMessage(error) ==
  <<"[get] failed to get the resource: ">> \o TemplateValue(error) \o <<".">>

\* mutant: the presence of the field decides, not its truthiness
handleGetListPayloadIfPresent(payload) ==
  IF HasKey(payload.entries, <<"error">>)
  THEN Throw(Error(ListErrorMessage(GetProp(payload, <<"error">>))))
  ELSE Return(payload)

handleGetListPayload(payload) ==
  IF Truthy(GetProp(payload, <<"error">>))
  THEN Throw(Error(ListErrorMessage(GetProp(payload, <<"error">>))))
  ELSE Return(payload)

----------------------------------------------------------------------------
(* Inputs *)

Command(method, params) == [method |-> method, params |-> params]

ParamsID11 == JsObject(<< <<<<"I", "D">>, JsNumber(11)>> >>)
ParamsTwo == JsObject(<< <<<<"q">>, JsString(<<"a", " ", "b">>)>>,
                         <<<<"I", "D">>, JsNumber(7)>> >>)

CommandSet ==
  { Command(<<"M">>, Undefined),
    Command(<<"M">>, JsObject(<<>>)),
    Command(<<"M">>, ParamsID11),
    Command(<<"L">>, ParamsTwo) }

CommandNames == { <<"a">>, <<"b">>, <<"a", "b">> }

\* the entry sequences of at most n entries with pairwise distinct names
RECURSIVE EntrySeqs(_)
EntrySeqs(n) ==
  IF n = 0 THEN { <<>> }
  ELSE LET shorter == EntrySeqs(n - 1)
       IN shorter \cup
          { Append(s, <<name, cmd>>) :
              s \in { q \in shorter : Len(q) = n - 1 },
              name \in CommandNames, cmd \in CommandSet }

DistinctNames(entries) ==
  \A i, j \in 1..Len(entries) : entries[i][1] = entries[j][1] => i = j

SmallCommands ==
  { JsObject(s) : s \in { q \in EntrySeqs(MaxEntries) : DistinctNames(q) } }

\* n commands named "c0", "c1", ...
BigCommands(n) ==
  JsObject([i \in 1..n |->
              << <<"c">> \o NumberToString(i - 1), Command(<<"M">>, Undefined) >>])

BigSizes == (MAX_COMMANDS_PER_BATCH - 1)..(MAX_COMMANDS_PER_BATCH + MaxOver)

EncInputs == SmallCommands \cup { BigCommands(n) : n \in BigSizes } \cup { Undefined }

----------------------------------------------------------------------------
(* Calls *)

Calls == 1..NumCalls

None == [t |-> "none"]

InitCalls ==
  /\ pc = [c \in Calls |-> "idle"]
  /\ kind = [c \in Calls |-> "none"]
  /\ args = [c \in Calls |-> None]
  /\ getCalls = [c \in Calls |-> <<>>]
  /\ response = [c \in Calls |-> None]
  /\ outcome = [c \in Calls |-> None]
  /\ validated = [c \in Calls |-> 0]

Resolved(v) == [status |-> "resolved", value |-> v]
Rejected(e) == [status |-> "rejected", error |-> e]

\* Method.BATCH, and a listable method
BATCH == <<"batch">>
LIST_DEALS == <<"crm.deal.list">>

\* one invocation of the injected get: get(path, { query })
GetCall(path, query) == [path |-> path, options |-> [query |-> query]]

\* the commands a caller passes to batch
BatchInputs ==
  { Undefined,
    JsObject(<<>>),
    JsObject(<< <<<<"a">>, Command(<<"M">>, ParamsID11)>> >>),
    JsObject(<< <<<<"a">>, Command(<<"M">>, Undefined)>>,
                <<<<"b">>, Command(<<"L">>, ParamsTwo)>> >>) }
    \cup { BigCommands(n) : n \in MAX_COMMANDS_PER_BATCH..(MAX_COMMANDS_PER_BATCH + MaxOver) }

\* the queries a caller passes to the list fetch
ListQueries ==
  { Undefined, JsObject(<< <<<<"start">>, JsNumber(50)>> >>) }

\* the bodies the remote service answers a batch with
BadID == <<"b", "a", "d", " ", "I", "D">>
Results1 == JsObject(<< <<<<"a">>, JsNumber(1)>> >>)
Results2 == JsObject(<< <<<<"a">>, JsNumber(1)>>, <<<<"b">>, JsNumber(2)>> >>)

BatchBodies ==
  { BatchPayload(Results1, JsArray(<<>>)),
    BatchPayload(Results2, JsObject(<<>>)),
    BatchPayload(JsObject(<<>>), JsArray(<<BadID>>)),
    BatchPayload(Results1, JsArray(<< <<"e", "1">>, <<"e", "2">> >>)),
    BatchPayload(Results1, JsObject(<< <<<<"b">>, <<"x">>>> >>)),
    BatchPayload(Results1, JsObject(<< <<<<"z">>, <<"x">>>> >>)) }

\* the bodies the remote service answers a list fetch with
NotFound == <<"n", "o", "t", " ", "f", "o", "u", "n", "d">>
ListResult == JsArray(<<JsNumber(1), JsNumber(2)>>)

ListBodies ==
  { JsObject(<< <<<<"result">>, ListResult>> >>),
    JsObject(<< <<<<"error">>, JsString(NotFound)>> >>),
    JsObject(<< <<<<"error">>, JsString(<<>>)>>, <<<<"result">>, ListResult>> >>),
    JsObject(<< <<<<"result">>, ListResult>>, <<<<"error">>, JsString(<<"x">>)>> >>) }

\* what the injected get fails with
TransportErrors ==
  { [name |-> "RequestError", message |-> <<"ECONNREFUSED">>],
    [name |-> "TimeoutError", message |-> <<"ETIMEDOUT">>] }

Body(b) == [t |-> "body", body |-> b]
Failure(e) == [t |-> "error", error |-> e]

----------------------------------------------------------------------------
(* batch.ts: the batch execute function *)

\* mutant: the cap is one too low
ExceedsCapInclusive(commandsAmount) == commandsAmount >= MAX_COMMANDS_PER_BATCH

\* mutant: an empty batch is refused as well
ExceedsCapOrEmpty(commandsAmount) ==
  commandsAmount = 0 \/ commandsAmount > MAX_COMMANDS_PER_BATCH

\* commandsAmount > MAX_COMMANDS_PER_BATCH
ExceedsCap(commandsAmount) == commandsAmount > MAX_COMMANDS_PER_BATCH

\* `[batch] failed to process. Received ${commandsAmount} commands, but maximum ${MAX_COMMANDS_PER_BATCH} allowed`
TooManyMessage(commandsAmount) ==
  <<"[batch] failed to process. Received ">> \o NumberToString(commandsAmount)
    \o <<" commands, but maximum ">> \o NumberToString(MAX_COMMANDS_PER_BATCH)
    \o <<" allowed">>

Settle(c, res) ==
  /\ outcome' = [outcome EXCEPT ![c] = IF res.threw THEN Rejected(res.error)
                                       ELSE Resolved(res.value)]
  /\ pc' = [pc EXCEPT ![c] = IF res.threw THEN "rejected" ELSE "resolved"]

\* mutant: the request is sent again after it was sent
BatchExecuteTwice(c, commands) ==
  /\ pc[c] = "idle"
  /\ kind' = [kind EXCEPT ![c] = "batch"]
  /\ args' = [args EXCEPT ![c] = commands]
  /\ LET keys == ObjectKeys(commands)
     IN IF keys.threw
        THEN /\ Settle(c, Throw(keys.error))
             /\ UNCHANGED getCalls
        ELSE IF ExceedsCap(Len(keys.value))
        THEN /\ Settle(c, Throw(Error(TooManyMessage(Len(keys.value)))))
             /\ UNCHANGED getCalls
        ELSE LET call == GetCall(BATCH, commandsToBatchQuery(commands).value)
             IN /\ getCalls' = [getCalls EXCEPT ![c] = getCalls[c] \o <<call, call>>]
                /\ pc' = [pc EXCEPT ![c] = "awaiting"]
                /\ UNCHANGED outcome
  /\ UNCHANGED <<response, validated, encVars>>

\* The call batch(commands), up to the point where it awaits the injected get.
\* An exception inside the async function rejects the returned promise.
BatchExecute(c, commands) ==
  /\ pc[c] = "idle"
  /\ kind' = [kind EXCEPT ![c] = "batch"]
  /\ args' = [args EXCEPT ![c] = commands]
  /\ LET keys == ObjectKeys(commands)
     IN IF keys.threw
        THEN /\ Settle(c, Throw(keys.error))
             /\ UNCHANGED getCalls
        ELSE IF ExceedsCap(Len(keys.value))
        THEN /\ Settle(c, Throw(Error(TooManyMessage(Len(keys.value)))))
             /\ UNCHANGED getCalls
        ELSE /\ getCalls' = [getCalls EXCEPT ![c] =
                  Append(getCalls[c],
                         GetCall(BATCH, commandsToBatchQuery(commands).value))]
             /\ pc' = [pc EXCEPT ![c] = "awaiting"]
             /\ UNCHANGED outcome
  /\ UNCHANGED <<response, validated, encVars>>

\* The injected get fulfils with { body }: the .then callback runs handleBatchPayload.
BatchGetResolve(c, body) ==
  /\ pc[c] = "awaiting"
  /\ kind[c] = "batch"
  /\ response' = [response EXCEPT ![c] = Body(body)]
  /\ validated' = [validated EXCEPT ![c] = validated[c] + 1]
  /\ Settle(c, handleBatchPayload(body))
  /\ UNCHANGED <<kind, args, getCalls, encVars>>

\* mutant: the transport error is wrapped in an error of this layer
BatchGetRejectWrapped(c, err) ==
  /\ pc[c] = "awaiting"
  /\ kind[c] = "batch"
  /\ response' = [response EXCEPT ![c] = Failure(err)]
  /\ Settle(c, Throw(Error(<<"[batch] failed to process. ">> \o err.message)))
  /\ UNCHANGED <<kind, args, getCalls, validated, encVars>>

\* The injected get rejects: .then has no rejection handler, the error passes through.
BatchGetReject(c, err) ==
  /\ pc[c] = "awaiting"
  /\ kind[c] = "batch"
  /\ response' = [response EXCEPT ![c] = Failure(err)]
  /\ Settle(c, Throw(err))
  /\ UNCHANGED <<kind, args, getCalls, validated, encVars>>

----------------------------------------------------------------------------
(* part_000: the list fetch function *)

\* The call getList(method, query): get(method, { query }).
ListExecute(c, method, query) ==
  /\ pc[c] = "idle"
  /\ kind' = [kind EXCEPT ![c] = "list"]
  /\ args' = [args EXCEPT ![c] = [method |-> method, query |-> query]]
  /\ getCalls' = [getCalls EXCEPT ![c] = Append(getCalls[c], GetCall(method, query))]
  /\ pc' = [pc EXCEPT ![c] = "awaiting"]
  /\ UNCHANGED <<response, outcome, validated, encVars>>

\* The injected get fulfils with { body }: the .then callback runs handleGetListPayload.
ListGetResolve(c, body) ==
  /\ pc[c] = "awaiting"
  /\ kind[c] = "list"
  /\ response' = [response EXCEPT ![c] = Body(body)]
  /\ validated' = [validated EXCEPT ![c] = validated[c] + 1]
  /\ Settle(c, handleGetListPayload(body))
  /\ UNCHANGED <<kind, args, getCalls, encVars>>

\* The injected get rejects: the error passes through .then.
ListGetReject(c, err) ==
  /\ pc[c] = "awaiting"
  /\ kind[c] = "list"
  /\ response' = [response EXCEPT ![c] = Failure(err)]
  /\ Settle(c, Throw(err))
  /\ UNCHANGED <<kind, args, getCalls, validated, encVars>>

----------------------------------------------------------------------------
(* Concurrently issued calls *)

Init ==
  /\ InitCalls
  /\ encPc = "off"
  /\ encCommands = None
  /\ encResult = None

Next ==
  \/ \E c \in Calls, commands \in BatchInputs : BatchExecute(c, commands)
  \/ \E c \in Calls, body \in BatchBodies : BatchGetResolve(c, body)
  \/ \E c \in Calls, err \in TransportErrors : BatchGetReject(c, err)
  \/ \E c \in Calls, query \in ListQueries : ListExecute(c, LIST_DEALS, query)
  \/ \E c \in Calls, body \in ListBodies : ListGetResolve(c, body)
  \/ \E c \in Calls, err \in TransportErrors : ListGetReject(c, err)

Spec == Init /\ [][Next]_vars

----------------------------------------------------------------------------
(* The encode harness: commandsToBatchQuery applied to one input *)

InitEnc ==
  /\ InitCalls
  /\ encPc = "input"
  /\ encCommands \in EncInputs
  /\ encResult = None

Encode ==
  /\ encPc = "input"
  /\ encResult' = commandsToBatchQuery(encCommands)
  /\ encPc' = "done"
  /\ UNCHANGED <<encCommands, callVars>>

NextEnc == Encode

SpecEnc == InitEnc /\ [][NextEnc]_vars

----------------------------------------------------------------------------
(* Properties *)

IsBatch(c) == kind[c] = "batch"
IsList(c) == kind[c] = "list"
Settled(c) == pc[c] \in {"resolved", "rejected"}
HasCommands(c) == IsBatch(c) /\ args[c].t = "object"
Amount(c) == Len(args[c].entries)
SubmittedNames(c) == { args[c].entries[i][1] : i \in 1..Amount(c) }
GotBody(c) == response[c].t = "body"
GotFailure(c) == response[c].t = "error"

\* sub occurs in msg as a contiguous run
Contains(msg, sub) ==
  \E i \in 1..(Len(msg) - Len(sub) + 1) : SubSeq(msg, i, i + Len(sub) - 1) = sub

\* the error messages of a batch body, whichever of the two wire shapes it has
ErrorStrings(body) ==
  LET re == body.result.result_error
  IN IF re.t = "array" THEN re.items
     ELSE [i \in 1..Len(re.entries) |-> re.entries[i][2]]

\* the command names an error mapping is keyed by (none for the array shape)
ErrorKeys(body) ==
  LET re == body.result.result_error
  IN IF re.t = "object" THEN { re.entries[i][1] : i \in 1..Len(re.entries) } ELSE {}

IsTooManyError(e, n, limit) ==
  /\ e.name = "Error"
  /\ e.message[1] = "[batch] failed to process. Received "
  /\ Contains(e.message, NumberToString(n) \o <<" commands, but maximum ">>
                           \o NumberToString(limit))

IsBatchCommandError(e) ==
  e.name = "Error" /\ e.message[1] = "[batch] failed to process. Received errors in "

IsResourceFetchError(e) ==
  e.name = "Error" /\ e.message[1] = "[get] failed to get the resource: "

\* C1: a batch call with more than 50 commands is rejected with the
\* too-many-commands error carrying the count and the limit 50, having invoked
\* get zero times; a call with 50 or fewer commands is never rejected by the cap.
Inv_C1_SizeCap ==
  \A c \in Calls :
    HasCommands(c) =>
      /\ Amount(c) > 50 =>
           /\ pc[c] = "rejected"
           /\ IsTooManyError(outcome[c].error, Amount(c), 50)
           /\ getCalls[c] = <<>>
      /\ Amount(c) <= 50 =>
           /\ Len(getCalls[c]) >= 1
           /\ pc[c] = "rejected" => outcome[c].error.message[1]
                                      # "[batch] failed to process. Received "

Wit_C1_SizeCap ==
  \E c, d \in Calls :
    /\ HasCommands(c) /\ Amount(c) = 51 /\ pc[c] = "rejected"
    /\ HasCommands(d) /\ Amount(d) = 50 /\ pc[d] = "resolved"

\* C2: when the body of a batch response carries at least one error message, in
\* the array shape or the mapping shape, the call is rejected with the
\* batch-command error and returns no payload; the message states
\* "<count> commands" and holds every error string, joined by newlines.
Inv_C2_AllOrNothing ==
  \A c \in Calls :
    (IsBatch(c) /\ GotBody(c) /\ Len(ErrorStrings(response[c].body)) >= 1) =>
      LET errors == ErrorStrings(response[c].body)
      IN /\ pc[c] = "rejected"
         /\ outcome[c].status = "rejected"
         /\ IsBatchCommandError(outcome[c].error)
         /\ Contains(outcome[c].error.message,
                     NumberToString(Len(errors)) \o <<" commands">>)
         /\ \A i \in 1..Len(errors) : Contains(outcome[c].error.message, errors[i])
         /\ Contains(outcome[c].error.message, Join(errors, <<"\n">>))

Wit_C2_AllOrNothing ==
  \E c, d \in Calls :
    /\ IsBatch(c) /\ GotBody(c) /\ pc[c] = "rejected"
    /\ response[c].body.result.result_error = JsArray(<<BadID>>)
    /\ Contains(outcome[c].error.message, <<"1", " commands">>)
    /\ IsBatch(d) /\ GotBody(d) /\ pc[d] = "rejected"
    /\ response[d].body.result.result_error.t = "object"

\* C3: a batch call with at most 50 commands, and every list fetch, invokes get
\* exactly once, whatever the other calls do; the batch request goes to the batch
\* endpoint with the encoding of the call's own commands; a call settles only
\* after its own response has arrived and been handled, and with its own payload.
Inv_C3_OneRoundTrip ==
  \A c \in Calls :
    /\ (HasCommands(c) /\ Amount(c) <= MAX_COMMANDS_PER_BATCH) =>
         getCalls[c] = <<GetCall(BATCH, commandsToBatchQuery(args[c]).value)>>
    /\ IsList(c) => getCalls[c] = <<GetCall(args[c].method, args[c].query)>>
    /\ pc[c] = "awaiting" => (response[c] = None /\ outcome[c] = None)
    /\ (Settled(c) /\ getCalls[c] # <<>>) =>
         /\ response[c] # None
         /\ GotBody(c) => validated[c] = 1
         /\ (GotBody(c) /\ pc[c] = "resolved") => outcome[c].value = response[c].body
         /\ GotFailure(c) => outcome[c] = Rejected(response[c].error)

Wit_C3_OneRoundTrip ==
  \E c, d \in Calls :
    /\ HasCommands(c) /\ Amount(c) = 2 /\ pc[c] = "resolved" /\ Len(getCalls[c]) = 1
    /\ IsList(d) /\ pc[d] = "rejected" /\ GotBody(d) /\ Len(getCalls[d]) = 1

\* C4: when result_error of a batch body is the empty array or the empty mapping,
\* the call resolves with exactly the body it received.
Inv_C4_ErrorFreeUntouched ==
  \A c \in Calls :
    (IsBatch(c) /\ GotBody(c)
       /\ response[c].body.result.result_error \in {JsArray(<<>>), JsObject(<<>>)}) =>
      /\ pc[c] = "resolved"
      /\ outcome[c] = Resolved(response[c].body)

Wit_C4_ErrorFreeUntouched ==
  \E c, d \in Calls :
    /\ IsBatch(c) /\ pc[c] = "resolved"
    /\ response[c].body.result.result_error = JsObject(<<>>)
    /\ IsBatch(d) /\ pc[d] = "resolved"
    /\ response[d].body.result.result_error = JsArray(<<>>)

\* C5: a list fetch whose response body has a present, non-empty error field is
\* rejected with the resource-fetch error embedding that text; with the field
\* absent or empty it resolves with the body unchanged.
Inv_C5_ListOutcome ==
  \A c \in Calls :
    (IsList(c) /\ GotBody(c)) =>
      LET body == response[c].body
          present == \E i \in 1..Len(body.entries) : body.entries[i][1] = <<"error">>
          text == (CHOOSE e \in {body.entries[i] : i \in 1..Len(body.entries)} :
                     e[1] = <<"error">>)[2]
      IN IF present /\ text.s # <<>>
         THEN /\ pc[c] = "rejected"
              /\ outcome[c].status = "rejected"
              /\ IsResourceFetchError(outcome[c].error)
              /\ Contains(outcome[c].error.message, text.s)
         ELSE /\ pc[c] = "resolved"
              /\ outcome[c] = Resolved(body)

Wit_C5_ListOutcome ==
  \E c, d \in Calls :
    /\ IsList(c) /\ pc[c] = "rejected" /\ GotBody(c)
    /\ Contains(outcome[c].error.message, NotFound)
    /\ IsList(d) /\ pc[d] = "resolved"
    /\ \E i \in 1..Len(response[d].body.entries) :
         response[d].body.entries[i] = <<<<"error">>, JsString(<<>>)>>

\* C9: when the injected get fails with a transport error, the call is rejected
\* with that very error; the payload handler never runs, get is not invoked
\* again and the call does not resolve.
Inv_C9_TransportErrorPropagates ==
  \A c \in Calls :
    GotFailure(c) =>
      /\ pc[c] = "rejected"
      /\ outcome[c] = Rejected(response[c].error)
      /\ validated[c] = 0
      /\ Len(getCalls[c]) = 1

Wit_C9_TransportErrorPropagates ==
  \E c, d \in Calls :
    /\ IsBatch(c) /\ GotFailure(c) /\ pc[c] = "rejected"
    /\ IsList(d) /\ GotFailure(d) /\ pc[d] = "rejected"

\* C8 as stated: an absent commands argument and an empty mapping both encode
\* to zero query parameters, and neither fails before the GET is issued.
Orig_C8_NoCommandsValid ==
  \A c \in Calls :
    (IsBatch(c) /\ args[c] \in {Undefined, JsObject(<<>>)}) =>
      /\ ~commandsToBatchQuery(args[c]).threw
      /\ commandsToBatchQuery(args[c]).value = JsObject(<<>>)
      /\ getCalls[c] = <<GetCall(BATCH, JsObject(<<>>))>>

\* C8, amended: the empty mapping encodes to zero query parameters and its call
\* issues the GET; an absent commands argument makes encode throw a TypeError and
\* the call reject with a TypeError before any GET.
Inv_C8_EmptyValidAbsentThrows ==
  \A c \in Calls :
    /\ (IsBatch(c) /\ args[c] = JsObject(<<>>)) =>
         /\ commandsToBatchQuery(args[c]) = Return(JsObject(<<>>))
         /\ getCalls[c] = <<GetCall(BATCH, JsObject(<<>>))>>
    /\ (IsBatch(c) /\ args[c] = Undefined) =>
         /\ commandsToBatchQuery(args[c]) = Throw(TypeError)
         /\ pc[c] = "rejected"
         /\ outcome[c] = Rejected(TypeError)
         /\ getCalls[c] = <<>>

Wit_C8_EmptyValidAbsentThrows ==
  \E c, d \in Calls :
    /\ IsBatch(c) /\ args[c] = JsObject(<<>>) /\ pc[c] = "resolved"
    /\ IsBatch(d) /\ args[d] = Undefined /\ pc[d] = "rejected"

\* C10 as stated: every key of the error mapping of a body that batch execute
\* handles is the name of a command submitted in that call.
Orig_C10_ErrorKeysSubmitted ==
  \A c \in Calls :
    (HasCommands(c) /\ GotBody(c)) => ErrorKeys(response[c].body) \subseteq SubmittedNames(c)

\* C10, amended: the keys of the error mapping are not compared with the
\* submitted names; a body whose error mapping names a command that was not
\* submitted is never returned, the call is rejected with the batch-command error.
Inv_C10_ForeignKeyRejected ==
  \A c \in Calls :
    (HasCommands(c) /\ GotBody(c)
       /\ ~(ErrorKeys(response[c].body) \subseteq SubmittedNames(c))) =>
      /\ pc[c] = "rejected"
      /\ IsBatchCommandError(outcome[c].error)

Wit_C10_ForeignKeyRejected ==
  \E c \in Calls :
    /\ HasCommands(c) /\ GotBody(c) /\ pc[c] = "rejected"
    /\ <<"a">> \in SubmittedNames(c)
    /\ <<"z">> \in ErrorKeys(response[c].body)

\* C6: for a Commands mapping of n entries, n from 0 to the cap, encode yields
\* exactly n entries, one keyed cmd[<name>] for each command name, no other key,
\* and no two names on the same key.
Inv_C6_OneEntryPerCommand ==
  (encPc = "done" /\ encCommands.t = "object"
     /\ Len(encCommands.entries) <= MAX_COMMANDS_PER_BATCH) =>
    LET ins == encCommands.entries
        out == encResult.value.entries
        outKeys == { out[i][1] : i \in 1..Len(out) }
    IN /\ ~encResult.threw
       /\ Len(out) = Len(ins)
       /\ Cardinality(outKeys) = Len(ins)
       /\ outKeys = { <<"c", "m", "d", "[">> \o ins[i][1] \o <<"]">> : i \in 1..Len(ins) }

Wit_C6_OneEntryPerCommand ==
  /\ encPc = "done"
  /\ encCommands.t = "object"
  /\ Len(encCommands.entries) = MAX_COMMANDS_PER_BATCH
  /\ Len(encResult.value.entries) = MAX_COMMANDS_PER_BATCH

\* C7 as stated: the encoded value is the method, "?" and the URL-encoded
\* parameters when the command carries parameters, and the method alone, without
\* "?", when the parameter mapping is absent or empty.
Orig_C7_NoEmptySuffix ==
  (encPc = "done" /\ encCommands.t = "object") =>
    \A i \in 1..Len(encCommands.entries) :
      LET command == encCommands.entries[i][2]
          value == encResult.value.entries[i][2]
          carries == command.params.t = "object" /\ command.params.entries # <<>>
      IN /\ carries => value = command.method \o <<"?">> \o stringifyQuery(command.params)
         /\ (command = Command(<<"M">>, ParamsID11)) =>
              value = <<"M", "?", "I", "D", "=", "1", "1">>
         /\ ~carries => (value = command.method /\ ~Contains(value, <<"?">>))

====
